---- MODULE Spec2Model ----
(***************************************************************************)
(* The PII engine of smart_email: PIIValidator.validate and                *)
(* PIIValidator.sanitize (src/validators/pii_validator.py), with the       *)
(* regular expressions of PATTERNS interpreted by a backtracking matcher   *)
(* that follows Python's re module: leftmost start, greedy quantifiers,    *)
(* alternatives in order, non-overlapping scan for findall and sub.        *)
(* Text is a TLA+ string; a character is a string of length 1.             *)
(* Floats (confidence, threshold) are counted in tenths: 10 is 1.0.        *)
(*                                                                         *)
(* Five specifications share the variables: Spec, a caller validating and  *)
(* sanitizing a text; MaskSpec, the masking helper alone; ThreadSpec,      *)
(* threads calling one validator, statement by statement; SingletonSpec,   *)
(* threads calling get_pii_validator; PipelineSpec, process_request with   *)
(* PlannerAgent.plan and DrafterAgent.draft (src/agents, src/main.py).     *)
(* Each holds the variables of the others at their initial values.         *)
(***************************************************************************)
EXTENDS Integers, Sequences, FiniteSets, TLC

VARIABLES
    enabled,    \* PIIValidator.enabled, fixed at construction
    threshold,  \* PIIValidator.threshold, fixed at construction, in tenths
    content,    \* the text the caller holds: the argument of its next call
    previous,   \* the argument of the last sanitize call (content before it)
    passes,     \* how many times content has been through sanitize
    result,     \* <<r>>: validate returned r for content; <<>>: not called yet
    \* SmartEmailAssistant.process_request
    stage,        \* its position: "start", "planned", "retrieved", "drafted", "done"
    user_request, \* its argument user_request
    auto_send,    \* its argument auto_send
    plan,         \* <<p>>: planner.plan returned p
    context,      \* <<c>>: retriever.retrieve_context returned c; <<>>: None
    inputs,       \* <<i>>: drafter.draft is at chain.invoke with the values i; <<>>: it is not
    draft,        \* <<d>>: drafter.draft returned d
    response,     \* <<r>>: process_request returned r
    trace,        \* the calls made on the LLM chains, the validator and gmail, in order
    \* threads calling one PIIValidator
    threads,    \* each thread's frame: the method it is in, its position, its locals
    returned,   \* the calls that have returned: method, argument, returned value
    \* get_pii_validator
    _validator, \* the module's global: <<>> is None, <<n>> the n-th instance constructed
    instances,  \* how many times PIIValidator() has been called
    getters     \* each calling thread's frame: its position, its locals, what it got

textVars == <<content, previous, passes, result>>
pipelineVars == <<stage, user_request, auto_send, plan, context, inputs, draft, response, trace>>
threadVars == <<threads, returned>>
singletonVars == <<_validator, instances, getters>>

vars == <<enabled, threshold, textVars, pipelineVars, threadVars, singletonVars>>

(***************************************************************************)
(* Characters and character classes.                                       *)
(***************************************************************************)
Chr(s, i) == SubSeq(s, i, i)

UpperS == "ABCDEFGHIJKLMNOPQRSTUVWXYZ"
LowerS == "abcdefghijklmnopqrstuvwxyz"
DigitS == "0123456789"

CharsOf(s) == {Chr(s, i) : i \in 1..Len(s)}

Upper == CharsOf(UpperS)
Lower == CharsOf(LowerS)
Digit == CharsOf(DigitS)

\* Text is Unicode for Python's re; a TLA+ string holds the characters up to
\* U+00FF, and the classes are given on these.  Of the characters above
\* U+007F, \w holds the letters and the numeric characters, \d none.
WideWordS == "ª²³µ¹º¼½¾ÀÁÂÃÄÅÆÇÈÉÊËÌÍÎÏÐÑÒÓÔÕÖØÙÚÛÜÝÞßàáâãäåæçèéêëìíîïðñòóôõöøùúûüýþÿ"

\* \s besides space, \t, \n, \r, \f: U+000B, U+001C to U+001F, U+0085,
\* U+00A0, in this order.
WideSpaceS == " "

\* \w (hence \b) and \s of Python's re; \d is Digit.
WordChars == Upper \cup Lower \cup Digit \cup {"_"} \cup CharsOf(WideWordS)
SpaceChars == {" ", "\t", "\n", "\r", "\f"} \cup CharsOf(WideSpaceS)

\* The other case of a letter; any other character is its own other case.
SwapCase(c) ==
    IF c \in Upper THEN Chr(LowerS, CHOOSE i \in 1..Len(UpperS) : Chr(UpperS, i) = c)
    ELSE IF c \in Lower THEN Chr(UpperS, CHOOSE i \in 1..Len(LowerS) : Chr(LowerS, i) = c)
    ELSE c

\* Does character c belong to class S, with or without re.IGNORECASE.
InClass(c, S, ic) == c \in S \/ (ic /\ SwapCase(c) \in S)

(***************************************************************************)
(* Regular expression syntax trees.                                        *)
(***************************************************************************)
Set(S) == [k |-> "set", s |-> S]
Lit(c) == [k |-> "set", s |-> {c}]
B == [k |-> "b"]
Cat(ns) == [k |-> "cat", ns |-> ns]
Alt(ns) == [k |-> "alt", ns |-> ns]
Grp(n) == [k |-> "grp", n |-> n]
\* n? for any node n, greedy
Opt(n) == [k |-> "opt", n |-> n]
\* [S]{lo,hi} and [S]{lo,} for a character class S, greedy
Rep(S, lo, hi) == [k |-> "rep", s |-> S, lo |-> lo, hi |-> hi, unb |-> FALSE]
RepInf(S, lo) == [k |-> "rep", s |-> S, lo |-> lo, hi |-> lo, unb |-> TRUE]
\* a literal word, character by character
Word(w) == Cat([i \in 1..Len(w) |-> Lit(Chr(w, i))])

(***************************************************************************)
(* The backtracking matcher.  A thread is [pos, caps]: pos characters of s *)
(* are consumed, caps are the captured groups closed so far.  Match gives  *)
(* the threads a node can end in, in the order backtracking tries them;    *)
(* the first one is the match Python reports.                              *)
(***************************************************************************)
AtBoundary(s, p) ==
    LET before == p >= 1 /\ Chr(s, p) \in WordChars
        after  == p < Len(s) /\ Chr(s, p + 1) \in WordChars
    IN  before # after

\* The number of characters of class S that s holds in a row after position
\* p, counted up to max.
RunLength(s, p, S, max, ic) ==
    CHOOSE n \in 0..max :
        /\ \A j \in 1..n : InClass(Chr(s, p + j), S, ic)
        /\ n = max \/ ~InClass(Chr(s, p + n + 1), S, ic)

RECURSIVE Match(_, _, _, _)
RECURSIVE MatchEach(_, _, _, _, _, _)
RECURSIVE MatchCat(_, _, _, _, _)
RECURSIVE MatchAlt(_, _, _, _, _)

\* node applied to each of the threads ths[lo..hi], results in order
MatchEach(node, s, ths, lo, hi, ic) ==
    IF lo > hi THEN <<>>
    ELSE IF lo = hi THEN Match(node, s, ths[lo], ic)
    ELSE LET mid == (lo + hi) \div 2
         IN  MatchEach(node, s, ths, lo, mid, ic) \o MatchEach(node, s, ths, mid + 1, hi, ic)

MatchCat(ns, i, s, ths, ic) ==
    IF i > Len(ns) \/ ths = <<>> THEN ths
    ELSE MatchCat(ns, i + 1, s, MatchEach(ns[i], s, ths, 1, Len(ths), ic), ic)

MatchAlt(ns, i, s, th, ic) ==
    IF i > Len(ns) THEN <<>>
    ELSE Match(ns[i], s, th, ic) \o MatchAlt(ns, i + 1, s, th, ic)

\* A greedy repetition of a class takes the longest run first and gives back
\* one character at a time, down to lo.
MatchRep(node, s, th, ic) ==
    LET left == Len(s) - th.pos
        max  == IF node.unb \/ node.hi > left THEN left ELSE node.hi
        run  == RunLength(s, th.pos, node.s, max, ic)
    IN  IF run < node.lo THEN <<>>
        ELSE [i \in 1..(run - node.lo + 1) |-> [th EXCEPT !.pos = @ + run - i + 1]]

Match(node, s, th, ic) ==
    CASE node.k = "set" ->
           IF th.pos < Len(s) /\ InClass(Chr(s, th.pos + 1), node.s, ic)
           THEN <<[th EXCEPT !.pos = @ + 1]>> ELSE <<>>
      [] node.k = "b" -> IF AtBoundary(s, th.pos) THEN <<th>> ELSE <<>>
      [] node.k = "cat" -> MatchCat(node.ns, 1, s, <<th>>, ic)
      [] node.k = "alt" -> MatchAlt(node.ns, 1, s, th, ic)
      [] node.k = "opt" -> Match(node.n, s, th, ic) \o <<th>>
      [] node.k = "grp" ->
           LET r == Match(node.n, s, th, ic)
           IN  [i \in 1..Len(r) |->
                  [r[i] EXCEPT !.caps = Append(@, SubSeq(s, th.pos + 1, r[i].pos))]]
      [] node.k = "rep" -> MatchRep(node, s, th, ic)

(***************************************************************************)
(* Scanning: re.search from a position, and the non-overlapping matches of *)
(* re.findall and re.sub.  A match is [start, end, caps]: it spans the     *)
(* characters start+1..end of s.  Every pattern of PATTERNS consumes at    *)
(* least one character, so the scan resumes at the end of each match.      *)
(***************************************************************************)
NoMatch == [start |-> -1, end |-> -1, caps |-> <<>>]

\* The match at each start position 0..Len(s), <<>> where there is none.
MatchesAt(pat, s, ic) ==
    [p \in 0..Len(s) |-> Match(pat, s, [pos |-> p, caps |-> <<>>], ic)]

\* The leftmost match that starts at from or later.
re_search(at, s, from) ==
    LET starts == {p \in from..Len(s) : at[p] # <<>>}
    IN  IF starts = {} THEN NoMatch
        ELSE LET p == CHOOSE q \in starts : \A r \in starts : q <= r
             IN  [start |-> p, end |-> at[p][1].pos, caps |-> at[p][1].caps]

RECURSIVE ScanFrom(_, _, _)
ScanFrom(at, s, from) ==
    LET m == re_search(at, s, from)
    IN  IF m = NoMatch THEN <<>>
        ELSE <<m>> \o ScanFrom(at, s, m.end)

\* The non-overlapping matches of pat in s, left to right.
re_finditer(pat, s, ic) == ScanFrom(MatchesAt(pat, s, ic), s, 0)

\* m.group(0)
MatchText(s, m) == SubSeq(s, m.start + 1, m.end)

\* re.findall: per match the tuple of groups of a pattern with several groups,
\* the group of a pattern with one group, else the matched text.  istuple is
\* what isinstance(match, tuple) answers.
re_findall(pat, s, ic) ==
    LET ms == re_finditer(pat, s, ic)
    IN  [i \in 1..Len(ms) |->
           [istuple |-> Len(ms[i].caps) > 1,
            v |-> IF Len(ms[i].caps) > 1 THEN ms[i].caps
                  ELSE IF Len(ms[i].caps) = 1 THEN ms[i].caps[1]
                  ELSE MatchText(s, ms[i])]]

(***************************************************************************)
(* String helpers of Python used by the validator.                         *)
(***************************************************************************)
\* sep.join(parts)
RECURSIVE Join(_, _)
Join(sep, parts) ==
    IF parts = <<>> THEN ""
    ELSE IF Len(parts) = 1 THEN parts[1]
    ELSE parts[1] \o sep \o Join(sep, Tail(parts))

\* s.split(sep) for a one-character sep
RECURSIVE Split(_, _)
Split(s, sep) ==
    IF \A i \in 1..Len(s) : Chr(s, i) # sep THEN <<s>>
    ELSE LET i == CHOOSE j \in 1..Len(s) :
                     Chr(s, j) = sep /\ \A h \in 1..(j - 1) : Chr(s, h) # sep
         IN  <<SubSeq(s, 1, i - 1)>> \o Split(SubSeq(s, i + 1, Len(s)), sep)

\* s.upper()
RECURSIVE StrUpper(_)
StrUpper(s) ==
    IF s = "" THEN ""
    ELSE (IF Head(s) \in Lower THEN SwapCase(Head(s)) ELSE Head(s)) \o StrUpper(Tail(s))

\* The email replacement with the split's other half kept: not the code's; the
\* mutation the domain-preservation claim is tested against.
EmailRepl_LocalPart(matched) == "[EMAIL_REDACTED]@" \o Split(matched, "@")[1]

\* The replacement sanitize computes for a matched email: the lambda
\* m: f"[EMAIL_REDACTED]@{m.group(0).split('@')[1]}"
EmailRepl(matched) == "[EMAIL_REDACTED]@" \o Split(matched, "@")[2]

\* A replacement string, and the email lambda, as re.sub's repl argument.
StrRepl(text) == [callable |-> FALSE, text |-> text]
LambdaRepl == [callable |-> TRUE, text |-> ""]

\* re.sub: every non-overlapping match replaced, the text between matches
\* kept.  repl is the replacement argument: a string (callable FALSE, text the
\* string), or the one callable the validator passes, sanitize's lambda for
\* emails (callable TRUE), applied to the matched text.
re_sub(pat, repl, s, ic) ==
    LET ms == re_finditer(pat, s, ic)
        out[i \in 0..Len(ms)] ==
            IF i = 0 THEN ""
            ELSE out[i - 1]
                 \o SubSeq(s, (IF i = 1 THEN 0 ELSE ms[i - 1].end) + 1, ms[i].start)
                 \o (IF repl.callable THEN EmailRepl(MatchText(s, ms[i]))
                     ELSE repl.text)
    IN  out[Len(ms)]
        \o SubSeq(s, (IF ms = <<>> THEN 0 ELSE ms[Len(ms)].end) + 1, Len(s))

(***************************************************************************)
(* PIIValidator.PATTERNS, in the dictionary's insertion order.             *)
(***************************************************************************)
Sep == Opt(Set({"-", "."}))
\* The card separator without \s: not the code's; the mutation the card
\* claim is tested against.
CardSep_DashOnly == Opt(Set({"-"}))

CardSep == Opt(Set({"-"} \cup SpaceChars))

\* The categories in alphabetical order: not the code's; the mutation the
\* claim about registry order is tested against.
PatternNames_Sorted == <<"address", "credit_card", "email", "ip_address", "phone", "ssn">>

PatternNames == <<"email", "phone", "ssn", "credit_card", "ip_address", "address">>

\* The email pattern with a final label of three or more characters: not the
\* code's; the mutation the email claims are tested against.
EmailPattern_LongLabel ==
    Cat(<<B, RepInf(Upper \cup Lower \cup Digit \cup {".", "_", "%", "+", "-"}, 1),
          Lit("@"), RepInf(Upper \cup Lower \cup Digit \cup {".", "-"}, 1),
          Lit("."), RepInf(Upper \cup {"|"} \cup Lower, 3), B>>)

\* \b[A-Za-z0-9._%+-]+@[A-Za-z0-9.-]+\.[A-Z|a-z]{2,}\b
EmailPattern ==
    Cat(<<B, RepInf(Upper \cup Lower \cup Digit \cup {".", "_", "%", "+", "-"}, 1),
          Lit("@"), RepInf(Upper \cup Lower \cup Digit \cup {".", "-"}, 1),
          Lit("."), RepInf(Upper \cup {"|"} \cup Lower, 2), B>>)

\* \b(?:\+?1[-.]?)?\(?([0-9]{3})\)?[-.]?([0-9]{3})[-.]?([0-9]{4})\b
PhonePattern ==
    Cat(<<B, Opt(Cat(<<Opt(Lit("+")), Lit("1"), Sep>>)),
          Opt(Lit("(")), Grp(Rep(Digit, 3, 3)), Opt(Lit(")")), Sep,
          Grp(Rep(Digit, 3, 3)), Sep, Grp(Rep(Digit, 4, 4)), B>>)

\* \b\d{3}-\d{2}-\d{4}\b
SsnPattern ==
    Cat(<<B, Rep(Digit, 3, 3), Lit("-"), Rep(Digit, 2, 2), Lit("-"), Rep(Digit, 4, 4), B>>)

\* \b\d{4}[-\s]?\d{4}[-\s]?\d{4}[-\s]?\d{4}\b
CreditCardPattern ==
    Cat(<<B, Rep(Digit, 4, 4), CardSep, Rep(Digit, 4, 4), CardSep,
          Rep(Digit, 4, 4), CardSep, Rep(Digit, 4, 4), B>>)

\* \b\d{1,3}\.\d{1,3}\.\d{1,3}\.\d{1,3}\b
IpAddressPattern ==
    Cat(<<B, Rep(Digit, 1, 3), Lit("."), Rep(Digit, 1, 3), Lit("."),
          Rep(Digit, 1, 3), Lit("."), Rep(Digit, 1, 3), B>>)

\* \b\d+\s+[A-Za-z]+\s+(?:Street|St|Avenue|Ave|Road|Rd|Boulevard|Blvd|Lane|Ln|Drive|Dr)\b
AddressPattern ==
    Cat(<<B, RepInf(Digit, 1), RepInf(SpaceChars, 1),
          RepInf(Upper \cup Lower, 1), RepInf(SpaceChars, 1),
          Alt(<<Word("Street"), Word("St"), Word("Avenue"), Word("Ave"),
                Word("Road"), Word("Rd"), Word("Boulevard"), Word("Blvd"),
                Word("Lane"), Word("Ln"), Word("Drive"), Word("Dr")>>), B>>)

PATTERNS ==
    [email |-> EmailPattern, phone |-> PhonePattern, ssn |-> SsnPattern,
     credit_card |-> CreditCardPattern, ip_address |-> IpAddressPattern,
     address |-> AddressPattern]

(***************************************************************************)
(* PIIValidator.                                                           *)
(***************************************************************************)
\* _mask with the boundary one lower: not the code's; the mutation the
\* masking claims are tested against.
_mask_ShortOnly(value) ==
    IF Len(value) <= 3 THEN "***"
    ELSE SubSeq(value, 1, 2) \o "***" \o SubSeq(value, Len(value) - 1, Len(value))

_mask(value) ==
    IF Len(value) <= 4 THEN "***"
    ELSE SubSeq(value, 1, 2) \o "***" \o SubSeq(value, Len(value) - 1, Len(value))

\* The pairs of one pattern with every value shown as matched: not the
\* code's; the mutation the claim about masked details is tested against.
DetectOne_Unmasked(pii_type, text) ==
    LET matches == re_findall(PATTERNS[pii_type], text, TRUE)
    IN  IF matches = <<>> THEN <<>>
        ELSE IF matches[1].istuple
        THEN [i \in 1..Len(matches) |->
                <<pii_type, "Found " \o pii_type \o ": " \o Join("-", matches[i].v)>>]
        ELSE [i \in 1..Len(matches) |->
                <<pii_type, "Found " \o pii_type \o ": " \o matches[i].v>>]

\* The pairs of one pattern with the joined groups masked like any other
\* value: not the code's; the mutation the claim about phone entries is
\* tested against.
DetectOne_MaskAll(pii_type, text) ==
    LET matches == re_findall(PATTERNS[pii_type], text, TRUE)
    IN  IF matches = <<>> THEN <<>>
        ELSE IF matches[1].istuple
        THEN [i \in 1..Len(matches) |->
                <<pii_type, "Found " \o pii_type \o ": " \o _mask(Join("-", matches[i].v))>>]
        ELSE [i \in 1..Len(matches) |->
                <<pii_type, "Found " \o pii_type \o ": " \o _mask(matches[i].v)>>]

\* The (pii_type, detail) pairs one pattern adds to detected.
DetectOne(pii_type, text) ==
    LET matches == re_findall(PATTERNS[pii_type], text, TRUE)
    IN  IF matches = <<>> THEN <<>>
        ELSE IF matches[1].istuple
        THEN [i \in 1..Len(matches) |->
                <<pii_type, "Found " \o pii_type \o ": " \o Join("-", matches[i].v)>>]
        ELSE [i \in 1..Len(matches) |->
                <<pii_type, "Found " \o pii_type \o ": " \o _mask(matches[i].v)>>]

RECURSIVE DetectFrom(_, _)
DetectFrom(i, text) ==
    IF i > Len(PatternNames) THEN <<>>
    ELSE DetectOne(PatternNames[i], text) \o DetectFrom(i + 1, text)

\* The detection loop starting at the second pattern: not the code's; a
\* mutation the scenario claims are tested against.
_detect_patterns_SkipFirst(text) == DetectFrom(2, text)

_detect_patterns(text) == DetectFrom(1, text)

PIIDetectionResult(has_pii, pii_types, confidence, details, safe_to_send) ==
    [has_pii |-> has_pii, pii_types |-> pii_types, confidence |-> confidence,
     details |-> details, safe_to_send |-> safe_to_send]

\* The elements of a sequence without repetition, in order of first occurrence.
Distinct(seq) ==
    LET keep == {i \in 1..Len(seq) : \A j \in 1..(i - 1) : seq[j] # seq[i]}
        nth[k \in 0..Cardinality(keep)] ==
            IF k = 0 THEN 0
            ELSE CHOOSE i \in keep : i > nth[k - 1] /\ \A j \in keep : j > nth[k - 1] => i <= j
    IN  [k \in 1..Cardinality(keep) |-> seq[nth[k]]]

\* validate with one thing changed: not the code's; the mutations the claims
\* about validate are tested against.  bypass: the disabled engine returns
\* early; minHits: matches needed for has_pii; conf: the confidence of a
\* detection; strict: < (else <=) against the threshold; reversed: the
\* comparison's sides swapped; distinct: pii_types without repetition.
validate_variant(en, thr, text, bypass, minHits, conf, strict, reversed, distinct) ==
    IF bypass /\ ~en THEN PIIDetectionResult(FALSE, <<>>, 10, <<>>, TRUE)
    ELSE LET detected_pii == _detect_patterns(text)
             has_pii == Len(detected_pii) >= minHits
             confidence == IF detected_pii # <<>> THEN conf ELSE 0
             below == IF reversed THEN thr < confidence
                      ELSE IF strict THEN confidence < thr ELSE confidence <= thr
             types == [i \in 1..Len(detected_pii) |-> detected_pii[i][1]]
         IN  PIIDetectionResult(has_pii,
                                IF distinct THEN Distinct(types) ELSE types,
                                confidence,
                                [i \in 1..Len(detected_pii) |-> detected_pii[i][2]],
                                ~has_pii \/ below)

validate_NoBypass(en, thr, text) ==
    validate_variant(en, thr, text, FALSE, 1, 10, TRUE, FALSE, FALSE)
validate_TwoHits(en, thr, text) ==
    validate_variant(en, thr, text, TRUE, 2, 10, TRUE, FALSE, FALSE)
validate_DistinctTypes(en, thr, text) ==
    validate_variant(en, thr, text, TRUE, 1, 10, TRUE, FALSE, TRUE)
validate_LessOrEqual(en, thr, text) ==
    validate_variant(en, thr, text, TRUE, 1, 10, FALSE, FALSE, FALSE)
validate_Reversed(en, thr, text) ==
    validate_variant(en, thr, text, TRUE, 1, 10, TRUE, TRUE, FALSE)
\* validate with the confidence counted per match: not the code's; the
\* mutation the claim about the two confidence values is tested against.
validate_CountConfidence(en, thr, text) ==
    validate_variant(en, thr, text, TRUE, 1, 10 * Len(_detect_patterns(text)),
                     TRUE, FALSE, FALSE)
validate_HalfConfidence(en, thr, text) ==
    validate_variant(en, thr, text, TRUE, 1, 5, TRUE, FALSE, FALSE)

validate(en, thr, text) ==
    IF ~en THEN PIIDetectionResult(FALSE, <<>>, 10, <<>>, TRUE)
    ELSE LET detected_pii == _detect_patterns(text)
             has_pii == Len(detected_pii) > 0
             confidence == IF detected_pii # <<>> THEN 10 ELSE 0
             safe_to_send == ~has_pii \/ confidence < thr
         IN  PIIDetectionResult(has_pii,
                                [i \in 1..Len(detected_pii) |-> detected_pii[i][1]],
                                confidence,
                                [i \in 1..Len(detected_pii) |-> detected_pii[i][2]],
                                safe_to_send)

\* The pass with the category's name written as it is in the last branch's
\* token: not the code's; the mutation the claim about fixed tokens is tested
\* against.
SanitizePass_PlainName(pii_type, text) ==
    IF pii_type = "email"
    THEN re_sub(PATTERNS[pii_type], LambdaRepl, text, TRUE)
    ELSE IF pii_type = "phone"
    THEN re_sub(PATTERNS[pii_type], StrRepl("[PHONE_REDACTED]"), text, FALSE)
    ELSE IF pii_type = "ssn"
    THEN re_sub(PATTERNS[pii_type], StrRepl("[SSN_REDACTED]"), text, FALSE)
    ELSE IF pii_type = "credit_card"
    THEN re_sub(PATTERNS[pii_type], StrRepl("[CARD_REDACTED]"), text, FALSE)
    ELSE re_sub(PATTERNS[pii_type],
                StrRepl("[" \o pii_type \o "_REDACTED]"), text, TRUE)

\* One iteration of sanitize's loop: the pass of pii_type over text.
SanitizePass(pii_type, text) ==
    IF pii_type = "email"
    THEN re_sub(PATTERNS[pii_type], LambdaRepl, text, TRUE)
    ELSE IF pii_type = "phone"
    THEN re_sub(PATTERNS[pii_type], StrRepl("[PHONE_REDACTED]"), text, FALSE)
    ELSE IF pii_type = "ssn"
    THEN re_sub(PATTERNS[pii_type], StrRepl("[SSN_REDACTED]"), text, FALSE)
    ELSE IF pii_type = "credit_card"
    THEN re_sub(PATTERNS[pii_type], StrRepl("[CARD_REDACTED]"), text, FALSE)
    ELSE re_sub(PATTERNS[pii_type],
                StrRepl("[" \o StrUpper(pii_type) \o "_REDACTED]"), text, TRUE)

\* The loop with every pass run on the text sanitize was given, the last
\* pass's output returned: not the code's; the mutation the claim about
\* sequential passes is tested against.
SanitizeFrom_OnOriginal(i, text) == SanitizePass(PatternNames[Len(PatternNames)], text)

RECURSIVE SanitizeFrom(_, _)
SanitizeFrom(i, text) ==
    IF i > Len(PatternNames) THEN text
    ELSE SanitizeFrom(i + 1, SanitizePass(PatternNames[i], text))

\* sanitize returning its argument instead of the loop's result: not the
\* code's; the mutation the claim relating validate and sanitize is tested
\* against.
sanitize_ReturnsContent(text) == text

sanitize(text) == SanitizeFrom(1, text)

(***************************************************************************)
(* Configuration (src/config.py) and the inputs of the model.              *)
(***************************************************************************)
\* PII_THRESHOLD's default, "0.8", and the default of ENABLE_PII_VALIDATION
PII_THRESHOLD == 8
ENABLE_PII_VALIDATION == TRUE

\* The values PII_THRESHOLD is given in the environment: negative, 0.0, the
\* default, exactly 1.0, above 1.0.
Thresholds == {-5, 0, PII_THRESHOLD, 10, 15}

\* Texts are built from at most MaxFrags fragments, those met under every
\* configuration from at most MaxConfigFrags; sanitize is applied to a text at
\* most MaxPasses times in a row.
MaxFrags == 3
MaxConfigFrags == 2
MaxPasses == 2

Fragments == {"a@b.co", "@b.co", "1", "_", "+", "|"}

\* The texts of the repository's tests and of the specification's scenarios.
ScenarioTexts ==
    {"Contact me at test@example.com",
     "contact me at a@b.com",
     "Use card 4242 4242 4242 4242 for payment",
     "Call me at (415) 555-1212",
     "Call 415-555-1212 or +1 (415)555.1212",
     "SSN 123-45-6789",
     "host 10.0.0.1, 12 Main St",
     "Mail A@B.CO, a@b.co1 and a@b.c|d"}

RECURSIVE Concats(_)
Concats(n) ==
    IF n = 0 THEN {""}
    ELSE LET shorter == Concats(n - 1)
         IN  shorter \cup {t \o f : t \in shorter, f \in Fragments}

Texts == Concats(MaxFrags) \cup ScenarioTexts

ConfigTexts == Concats(MaxConfigFrags) \cup ScenarioTexts

\* Phone numbers in every writing the phone pattern is about: an optional
\* leading +1 or 1, the area code bare or parenthesized, and each separator
\* absent, '-', '.' or a space.
PhoneLeads == {"", "+1", "1", "+1-", "1."}
PhoneSeps == {"", "-", ".", " "}
PhoneTexts ==
    {lead \o area \o s1 \o "555" \o s2 \o "1212" :
        lead \in PhoneLeads, area \in {"415", "(415)"},
        s1 \in PhoneSeps, s2 \in PhoneSeps}

\* Card numbers: four groups of four digits, each separator absent, '-' or a
\* space, alone, after text that ends in digit groups, or after the same
\* digits inside a longer word.
CardSeps == {"", "-", " "}
CardNumbers ==
    {"4242" \o s1 \o "4242" \o s2 \o "4242" \o s3 \o "4242" :
        s1 \in CardSeps, s2 \in CardSeps, s3 \in CardSeps}
CardPrefixes == {"", "Use card ", "555-555-", "123-45-", "x4242424242424242 "}
CardTexts == {p \o n \o s : p \in CardPrefixes, n \in CardNumbers, s \in {"", " now"}}

\* Email addresses whose domains hold letters only, digits, or digit groups
\* that a later pattern matches.
MailDomains ==
    {"b.com", "b2.co", "10.0.0.1.co", "415-555-1212.com", "123-45-6789.org"}
MailTexts ==
    {pre \o l \o "@" \o d \o post :
        pre \in {"", "contact me at "}, l \in {"a", "x.y"}, d \in MailDomains,
        post \in {"", " or a@b.co1", "a@b.co"}}

\* Texts with matches of several categories, or several of one.
MixedTexts ==
    {"SSN 123-45-6789 mail a@b.co",
     "12 Main St, host 10.0.0.1",
     "1.2.3.4 5.6.7.8",
     "999.999.999.999",
     "12 main st 13 Elm Rd",
     "10.0.0.1 Main St",
     "call 415.555.1212 card 4242-4242-4242-4242 ip 1.1.1.1",
     "a@b.co 415-555-1212 b@c.de 1-415-555-1212"}

\* The whitespace of \s that is not space, \t, \n, \r or \f, one by one.
VT == Chr(WideSpaceS, 1)
FS == Chr(WideSpaceS, 2)
GS == Chr(WideSpaceS, 3)
RS == Chr(WideSpaceS, 4)
US == Chr(WideSpaceS, 5)
NEL == Chr(WideSpaceS, 6)
NBSP == Chr(WideSpaceS, 7)

\* Texts with the whitespace U+000B and U+001C to U+001F in and around a card
\* number and an address.
SeparatorTexts ==
    {"4242" \o VT \o "4242" \o VT \o "4242" \o VT \o "4242",
     "4242" \o FS \o "4242" \o GS \o "4242" \o RS \o "4242",
     "Use card" \o US \o "4242424242424242" \o VT \o "now",
     "12" \o VT \o "Main" \o VT \o "St",
     "12" \o FS \o "Main" \o US \o "St"}

FormatTexts == MailTexts \cup CardTexts \cup PhoneTexts \cup MixedTexts \cup SeparatorTexts

\* Texts with characters above U+007F next to a match: a letter or a
\* numeric character that takes the word boundary away, a sign that
\* leaves it, and U+00A0 and U+0085 as whitespace.  TLC's state queue
\* keeps a string's characters as bytes, so these texts are not drawn by
\* Init: validate and sanitize are applied to them in WideRuns.
WideTexts ==
    {"éa@b.co", "a@b.coé", "a@b.co é", "a@b.co¼", "a@b.co÷", "×a@b.co×",
     "ªa@b.co", "a@b.co" \o NBSP \o "b@c.de",
     "é415-555-1212", "415-555-1212Ø", "123-45-6789²", "SSN" \o NBSP \o "123-45-6789",
     "µ1.2.3.4", "÷1.2.3.4÷", "12 Main Sté", "é12 Main St",
     "4242" \o NBSP \o "4242" \o NBSP \o "4242" \o NBSP \o "4242",
     "Use card" \o NEL \o "4242424242424242" \o NBSP \o "now",
     "é4242 4242 4242 4242", "4242-4242-4242-4242ÿ",
     "12" \o NBSP \o "Main" \o NEL \o "St",
     "1" \o NBSP \o "Main" \o NBSP \o "Rd"}

(***************************************************************************)
(* The state machine: a validator constructed from the configuration, and  *)
(* a caller that holds a text, has it validated, and replaces it by its    *)
(* sanitized form (as DrafterAgent.draft does with the request and with    *)
(* the body).  The validator has the configuration file's defaults, or,    *)
(* on the shorter texts, any configuration.                                *)
(***************************************************************************)
\* No request is being processed, no thread is calling, no accessor runs.
NoPipeline ==
    /\ stage = "none" /\ user_request = "" /\ auto_send = FALSE
    /\ plan = <<>> /\ context = <<>> /\ inputs = <<>> /\ draft = <<>> /\ response = <<>>
    /\ trace = <<>>

NoThreads == threads = <<>> /\ returned = {}

NoGetters == _validator = <<>> /\ instances = 0 /\ getters = <<>>

NoText == content = "" /\ previous = "" /\ passes = 0 /\ result = <<>>

Init ==
    /\ NoPipeline /\ NoThreads /\ NoGetters
    /\ \/ /\ enabled = ENABLE_PII_VALIDATION
          /\ threshold = PII_THRESHOLD
          /\ content \in FormatTexts \cup Texts
       \/ /\ enabled \in BOOLEAN
          /\ threshold \in Thresholds
          /\ content \in ConfigTexts
    /\ previous = content
    /\ passes = 0
    /\ result = <<>>

\* pii_result = validator.validate(content)
Validate ==
    /\ result = <<>>
    /\ result' = <<validate(enabled, threshold, content)>>
    /\ UNCHANGED <<enabled, threshold, content, previous, passes>>
    /\ UNCHANGED <<pipelineVars, threadVars, singletonVars>>

\* content = validator.sanitize(content)
Sanitize ==
    /\ passes < MaxPasses
    /\ previous' = content
    /\ content' = sanitize(content)
    /\ passes' = passes + 1
    /\ result' = <<>>
    /\ UNCHANGED <<enabled, threshold, pipelineVars, threadVars, singletonVars>>

Next == Validate \/ Sanitize

Spec == Init /\ [][Next]_vars

(***************************************************************************)
(* The masking helper on its own: _detect_patterns hands it a matched      *)
(* value, here any string of at most MaxMaskLen characters, and result     *)
(* holds what it returns.                                                  *)
(***************************************************************************)
MaxMaskLen == 6

MaskChars == {"a", "1", "."}

RECURSIVE Strings(_)
Strings(n) ==
    IF n = 0 THEN {""}
    ELSE LET shorter == Strings(n - 1)
         IN  shorter \cup {t \o c : t \in shorter, c \in MaskChars}

MaskInit ==
    /\ NoPipeline /\ NoThreads /\ NoGetters
    /\ enabled = ENABLE_PII_VALIDATION
    /\ threshold = PII_THRESHOLD
    /\ content \in Strings(MaxMaskLen)
    /\ previous = content
    /\ passes = 0
    /\ result = <<>>

\* self._mask(match)
Mask ==
    /\ result = <<>>
    /\ result' = <<_mask(content)>>
    /\ UNCHANGED <<enabled, threshold, content, previous, passes>>
    /\ UNCHANGED <<pipelineVars, threadVars, singletonVars>>

MaskNext == Mask

MaskSpec == MaskInit /\ [][MaskNext]_vars

(***************************************************************************)
(* Threads calling validate and sanitize on one PIIValidator.  A thread    *)
(* runs a method statement by statement, and the statements of different   *)
(* threads interleave in any order; the methods take no lock.  A frame     *)
(* holds the method's locals: content (arg), the loop's position i in      *)
(* PATTERNS, sanitized, detected_pii.                                      *)
(***************************************************************************)
NumThreads == 2
MaxCalls == 2

CallTexts == {"a@b.co 415-555-1212", "SSN 123-45-6789 at 10.0.0.1"}

Frame(pc, arg, i, sanitized, detected_pii, calls) ==
    [pc |-> pc, arg |-> arg, i |-> i, sanitized |-> sanitized,
     detected_pii |-> detected_pii, calls |-> calls]

\* how many calls the threads have made, the ones running included
RECURSIVE CallsUpTo(_)
CallsUpTo(t) ==
    IF t = 0 THEN 0
    ELSE CallsUpTo(t - 1) + threads[t].calls + (IF threads[t].pc = "idle" THEN 0 ELSE 1)

CallsMade == CallsUpTo(NumThreads)

ThreadInit ==
    /\ NoPipeline /\ NoGetters /\ NoText
    /\ enabled \in BOOLEAN
    /\ threshold = PII_THRESHOLD
    /\ threads = [t \in 1..NumThreads |-> Frame("idle", "", 0, "", <<>>, 0)]
    /\ returned = {}

\* the method returns value to its caller
Return(t, value) ==
    /\ returned' = returned \cup
          {[op |-> IF threads[t].pc = "loop" THEN "sanitize" ELSE "validate",
            arg |-> threads[t].arg, ret |-> value]}
    /\ threads' = [threads EXCEPT ![t] = Frame("idle", "", 0, "", <<>>, @.calls + 1)]

\* a thread calls validator.validate(content) or validator.sanitize(content)
Enter(t) ==
    /\ threads[t].pc = "idle"
    /\ CallsMade < MaxCalls
    /\ \E op \in {"validate", "sanitize"}, arg \in CallTexts :
          threads' = [threads EXCEPT ![t] = Frame(op, arg, 0, "", <<>>, @.calls)]
    /\ UNCHANGED <<enabled, threshold, returned>>
    /\ UNCHANGED <<textVars, pipelineVars, singletonVars>>

\* validate: if not self.enabled: return PIIDetectionResult(...)
CheckEnabled(t) ==
    /\ threads[t].pc = "validate"
    /\ IF ~enabled
       THEN Return(t, PIIDetectionResult(FALSE, <<>>, 10, <<>>, TRUE))
       ELSE /\ threads' = [threads EXCEPT ![t].pc = "detect"]
            /\ UNCHANGED returned
    /\ UNCHANGED <<enabled, threshold>>
    /\ UNCHANGED <<textVars, pipelineVars, singletonVars>>

\* validate: detected_pii = self._detect_patterns(content)
Detect(t) ==
    /\ threads[t].pc = "detect"
    /\ threads' = [threads EXCEPT ![t].pc = "decide",
                                  ![t].detected_pii = _detect_patterns(threads[t].arg)]
    /\ UNCHANGED <<enabled, threshold, returned>>
    /\ UNCHANGED <<textVars, pipelineVars, singletonVars>>

\* validate lowering self.threshold to the confidence it found: not the
\* code's; the mutation the claim about the unchanged configuration is
\* tested against.
Decide_Adaptive(t) ==
    /\ threads[t].pc = "decide"
    /\ LET detected_pii == threads[t].detected_pii
           has_pii == Len(detected_pii) > 0
           confidence == IF detected_pii # <<>> THEN 10 ELSE 0
       IN  /\ Return(t, PIIDetectionResult(has_pii,
                        [k \in 1..Len(detected_pii) |-> detected_pii[k][1]],
                        confidence,
                        [k \in 1..Len(detected_pii) |-> detected_pii[k][2]],
                        ~has_pii \/ confidence < threshold))
           /\ threshold' = IF has_pii THEN confidence + 1 ELSE threshold
    /\ UNCHANGED enabled
    /\ UNCHANGED <<textVars, pipelineVars, singletonVars>>

\* validate: has_pii, confidence, safe_to_send, and the return
Decide(t) ==
    /\ threads[t].pc = "decide"
    /\ LET detected_pii == threads[t].detected_pii
           has_pii == Len(detected_pii) > 0
           confidence == IF detected_pii # <<>> THEN 10 ELSE 0
       IN  Return(t, PIIDetectionResult(has_pii,
                        [k \in 1..Len(detected_pii) |-> detected_pii[k][1]],
                        confidence,
                        [k \in 1..Len(detected_pii) |-> detected_pii[k][2]],
                        ~has_pii \/ confidence < threshold))
    /\ UNCHANGED <<enabled, threshold>>
    /\ UNCHANGED <<textVars, pipelineVars, singletonVars>>

\* sanitize: sanitized = content, and the loop is entered
Begin(t) ==
    /\ threads[t].pc = "sanitize"
    /\ threads' = [threads EXCEPT ![t].pc = "loop", ![t].i = 1,
                                  ![t].sanitized = threads[t].arg]
    /\ UNCHANGED <<enabled, threshold, returned>>
    /\ UNCHANGED <<textVars, pipelineVars, singletonVars>>

\* The loop with its position kept in the validator, one for all threads: not
\* the code's; the mutation the claim about interleaved calls is tested
\* against.
Pass_SharedPosition(t) ==
    /\ threads[t].pc = "loop"
    /\ threads[t].i <= Len(PatternNames)
    /\ threads' = [u \in DOMAIN threads |->
                      IF u = t
                      THEN [threads[t] EXCEPT
                               !.sanitized = SanitizePass(PatternNames[threads[t].i], @),
                               !.i = @ + 1]
                      ELSE IF threads[u].pc = "loop"
                      THEN [threads[u] EXCEPT !.i = threads[t].i + 1]
                      ELSE threads[u]]
    /\ UNCHANGED <<enabled, threshold, returned>>
    /\ UNCHANGED <<textVars, pipelineVars, singletonVars>>

\* sanitize: one iteration of the loop over PATTERNS
Pass(t) ==
    /\ threads[t].pc = "loop"
    /\ threads[t].i <= Len(PatternNames)
    /\ threads' = [threads EXCEPT
                      ![t].sanitized = SanitizePass(PatternNames[threads[t].i], @),
                      ![t].i = @ + 1]
    /\ UNCHANGED <<enabled, threshold, returned>>
    /\ UNCHANGED <<textVars, pipelineVars, singletonVars>>

\* sanitize: return sanitized
Finish(t) ==
    /\ threads[t].pc = "loop"
    /\ threads[t].i > Len(PatternNames)
    /\ Return(t, threads[t].sanitized)
    /\ UNCHANGED <<enabled, threshold>>
    /\ UNCHANGED <<textVars, pipelineVars, singletonVars>>

ThreadNext ==
    \E t \in 1..NumThreads :
        \/ Enter(t)
        \/ CheckEnabled(t)
        \/ Detect(t)
        \/ Decide(t)
        \/ Begin(t)
        \/ Pass(t)
        \/ Finish(t)

ThreadSpec == ThreadInit /\ [][ThreadNext]_vars

(***************************************************************************)
(* get_pii_validator called from several threads.  The accessor tests the  *)
(* module's global, constructs and stores an instance when it is None, and *)
(* returns the global; it takes no lock, so another thread may run between *)
(* any two of these steps.  An instance is named by its number in order of *)
(* construction.                                                           *)
(***************************************************************************)
NumGetters == 2
MaxGets == 2

GetterFrame(pc, made, got) == [pc |-> pc, made |-> made, got |-> got]

SingletonInit ==
    /\ NoPipeline /\ NoThreads /\ NoText
    /\ enabled = ENABLE_PII_VALIDATION
    /\ threshold = PII_THRESHOLD
    /\ _validator = <<>>
    /\ instances = 0
    /\ getters = [t \in 1..NumGetters |-> GetterFrame("idle", 0, <<>>)]

\* a thread calls get_pii_validator()
GetCall(t) ==
    /\ getters[t].pc = "idle"
    /\ Len(getters[t].got) < MaxGets
    /\ getters' = [getters EXCEPT ![t].pc = "test"]
    /\ UNCHANGED <<_validator, instances>>
    /\ UNCHANGED <<enabled, threshold, textVars, pipelineVars, threadVars>>

\* if _validator is None:
TestNone(t) ==
    /\ getters[t].pc = "test"
    /\ getters' = [getters EXCEPT ![t].pc = IF _validator = <<>> THEN "construct"
                                            ELSE "return"]
    /\ UNCHANGED <<_validator, instances>>
    /\ UNCHANGED <<enabled, threshold, textVars, pipelineVars, threadVars>>

\* PIIValidator(), the right-hand side of the assignment
Construct(t) ==
    /\ getters[t].pc = "construct"
    /\ instances' = instances + 1
    /\ getters' = [getters EXCEPT ![t].pc = "store", ![t].made = instances + 1]
    /\ UNCHANGED _validator
    /\ UNCHANGED <<enabled, threshold, textVars, pipelineVars, threadVars>>

\* _validator = <the new instance>
Store(t) ==
    /\ getters[t].pc = "store"
    /\ _validator' = <<getters[t].made>>
    /\ getters' = [getters EXCEPT ![t].pc = "return"]
    /\ UNCHANGED instances
    /\ UNCHANGED <<enabled, threshold, textVars, pipelineVars, threadVars>>

\* return _validator
ReturnValidator(t) ==
    /\ getters[t].pc = "return"
    /\ getters' = [getters EXCEPT ![t].pc = "idle", ![t].made = 0,
                                  ![t].got = Append(@, _validator[1])]
    /\ UNCHANGED <<_validator, instances>>
    /\ UNCHANGED <<enabled, threshold, textVars, pipelineVars, threadVars>>

SingletonNext ==
    \E t \in 1..NumGetters :
        \/ GetCall(t)
        \/ TestNone(t)
        \/ Construct(t)
        \/ Store(t)
        \/ ReturnValidator(t)

SingletonSpec == SingletonInit /\ [][SingletonNext]_vars

(***************************************************************************)
(* SmartEmailAssistant.process_request: PlannerAgent.plan, the retriever,  *)
(* DrafterAgent.draft, and the send.  The two LLM chains, the retriever    *)
(* and gmail are outside the repository: a chain returns any of a few      *)
(* parsed outputs or raises, the retriever returns any of a few contexts.  *)
(* trace lists, in order, the calls made on the chains, on the validator   *)
(* and on gmail, each with its argument and what it returned.              *)
(***************************************************************************)
EmailPlan(intent, requires_context, context_query, recipients, subject, key_points, tone) ==
    [intent |-> intent, requires_context |-> requires_context,
     context_query |-> context_query, recipients |-> recipients,
     subject |-> subject, key_points |-> key_points, tone |-> tone]

EmailDraft(subject, body, tone, has_pii, is_safe) ==
    [subject |-> subject, body |-> body, tone |-> tone,
     has_pii |-> has_pii, is_safe |-> is_safe]

TraceCall(op, arg, ret) == [op |-> op, arg |-> arg, ret |-> ret]

\* The requests: the one of the planner's test, one with two addresses around
\* a '|', and one without PII.
Requests ==
    {"Request with SSN: 123-45-6789",
     "Mail ann@x.org|bob@y.com",
     "Write to Bob about Monday"}

\* What the planning chain parses from the LLM's answer.
PlanOutputs ==
    {EmailPlan("compose", rc, IF rc THEN "Monday" ELSE "", to, "Monday", kp, "professional") :
        rc \in BOOLEAN,
        to \in {<<>>, <<"bob@y.com">>},
        kp \in {<<>>, <<"call 415-555-1212", "confirm Monday">>}}

\* What retrieve_context returns: emails is the number of emails found.
Contexts ==
    {[emails |-> 0, summary |-> "No relevant emails found."],
     [emails |-> 1,
      summary |-> "From: carol@z.org\nSubject: Monday\nSnippet: my SSN is 123-45-6789...\n"]}

\* What the drafting chain parses from the LLM's answer to request.
DraftOutputs(request, tone) ==
    {EmailDraft("Monday", body, tone, FALSE, TRUE) :
        body \in {"See you Monday.", "Call me at 415-555-1212.", request}}

PipelineInit ==
    /\ NoThreads /\ NoGetters /\ NoText
    /\ \/ /\ enabled = ENABLE_PII_VALIDATION
          /\ threshold = PII_THRESHOLD
       \/ /\ enabled \in BOOLEAN
          /\ threshold \in Thresholds
    /\ stage = "start"
    /\ user_request \in Requests
    /\ auto_send \in BOOLEAN
    /\ plan = <<>> /\ context = <<>> /\ inputs = <<>> /\ draft = <<>> /\ response = <<>>
    /\ trace = <<>>

\* plan = self.planner.plan(user_request)
Plan ==
    /\ stage = "start"
    /\ \E outcome \in {<<>>} \cup {<<p>> : p \in PlanOutputs} :
          /\ trace' = Append(trace, TraceCall("planner.chain.invoke",
                                              [request |-> user_request], outcome))
          /\ plan' = IF outcome # <<>> THEN outcome
                     ELSE <<EmailPlan("compose", FALSE, "", <<>>, "",
                                      <<user_request>>, "professional")>>
    /\ stage' = "planned"
    /\ UNCHANGED <<user_request, auto_send, context, inputs, draft, response>>
    /\ UNCHANGED <<enabled, threshold, textVars, threadVars, singletonVars>>

\* context = self.retriever.retrieve_context(plan.context_query), or None
Retrieve ==
    /\ stage = "planned"
    /\ IF plan[1].requires_context /\ plan[1].context_query # ""
       THEN \E c \in Contexts : context' = <<c>>
       ELSE context' = <<>>
    /\ stage' = "retrieved"
    /\ UNCHANGED <<user_request, auto_send, plan, inputs, draft, response, trace>>
    /\ UNCHANGED <<enabled, threshold, textVars, threadVars, singletonVars>>

\* Pre-LLM PII scrubbing: sanitize on each of the texts, if the validator is
\* enabled
Scrub(texts) ==
    IF enabled THEN [k \in DOMAIN texts |-> sanitize(texts[k])] ELSE texts

\* The calls the scrubbing of raw into clean makes on the validator.
ScrubCalls(raw, clean) ==
    IF enabled THEN [k \in DOMAIN raw |-> TraceCall("sanitize", raw[k], clean[k])]
    ELSE <<>>

\* The draft the chain returned, after validation: has_pii and is_safe set
\* from pii_result, the body sanitized if it is not safe.
Validated(d, pii_result) ==
    EmailDraft(d.subject,
               IF pii_result.safe_to_send THEN d.body ELSE sanitize(d.body),
               d.tone, pii_result.has_pii, pii_result.safe_to_send)

\* The calls the validation of draft d into checked makes on the validator.
ValidationCalls(d, pii_result, checked) ==
    <<TraceCall("validate", d.body, pii_result)>>
        \o (IF pii_result.safe_to_send THEN <<>>
            ELSE <<TraceCall("sanitize", d.body, checked.body)>>)

\* draft's try block: the chain is invoked on values and returns outcome, a
\* parsed draft that is then validated, or raises, and the fallback draft
\* is returned.
InvokeAndValidate(values, outcome, pii_result) ==
    LET invoked == trace \o <<TraceCall("drafter.chain.invoke", values, outcome)>>
    IN  IF outcome = <<>>
        THEN /\ draft' = <<EmailDraft(plan[1].subject,
                              "Hello,\n\n" \o values.request \o "\n\nBest regards,",
                              values.tone, FALSE, TRUE)>>
             /\ trace' = invoked
        ELSE LET checked == Validated(outcome[1], pii_result)
             IN  /\ draft' = <<checked>>
                 /\ trace' = invoked \o ValidationCalls(outcome[1], pii_result, checked)

\* The values draft has ready for the chain: raw is the request, the key
\* points and the context section as prepared, clean the three as handed to
\* the chain, after the calls of the scrubbing.
PrepareWith(raw, clean) ==
    /\ inputs' = <<[request |-> clean[1], intent |-> plan[1].intent,
                    tone |-> plan[1].tone,
                    recipients |-> Join(", ", plan[1].recipients),
                    key_points |-> clean[2], context_section |-> clean[3]]>>
    /\ trace' = trace \o ScrubCalls(raw, clean)

\* self.drafter.draft(user_request, plan.dict(), context), up to the chain's
\* call: the context section and the plan values prepared and scrubbed
Prepare ==
    /\ stage = "retrieved" /\ inputs = <<>>
    /\ LET context_section ==
               IF context # <<>> /\ context[1].emails > 0
               THEN "\nContext from Previous Emails:\n" \o context[1].summary \o "\n"
               ELSE ""
           key_points == Join("\n- ", plan[1].key_points)
           raw == <<user_request, key_points, context_section>>
       IN  PrepareWith(raw, Scrub(raw))
    /\ UNCHANGED <<stage, user_request, auto_send, plan, context, draft, response>>
    /\ UNCHANGED <<enabled, threshold, textVars, threadVars, singletonVars>>

\* draft = self.drafter.draft(...), from the chain's call on: the LLM
\* answers or the call raises, the draft is validated and returned
Draft ==
    /\ stage = "retrieved" /\ inputs # <<>>
    /\ \E outcome \in {<<>>} \cup {<<d>> : d \in DraftOutputs(inputs[1].request,
                                                              inputs[1].tone)} :
          InvokeAndValidate(inputs[1], outcome,
                            IF outcome = <<>> THEN <<>>
                            ELSE validate(enabled, threshold, outcome[1].body))
    /\ inputs' = <<>>
    /\ stage' = "drafted"
    /\ UNCHANGED <<user_request, auto_send, plan, context, response>>
    /\ UNCHANGED <<enabled, threshold, textVars, threadVars, singletonVars>>

\* The send decided by auto_send alone, a sanitized draft sent like a safe
\* one: not the code's; the mutation the claim about sending is tested
\* against.
ShouldSend_Sanitized(auto, d) == auto /\ (d.is_safe \/ d.has_pii)

\* auto_send and draft.is_safe
ShouldSend(auto, d) == auto /\ d.is_safe

\* Step 4 of process_request, and its return
SendAndReturn ==
    /\ stage = "drafted"
    /\ IF ShouldSend(auto_send, draft[1]) /\ plan[1].recipients # <<>>
       THEN \E success \in BOOLEAN :
               trace' = Append(trace, TraceCall("gmail.send_email",
                                   [to |-> plan[1].recipients[1],
                                    subject |-> draft[1].subject,
                                    body |-> draft[1].body], success))
       ELSE trace' = trace
    /\ response' = <<[plan |-> plan[1], context |-> context, draft |-> draft[1],
                      sent |-> ShouldSend(auto_send, draft[1])]>>
    /\ stage' = "done"
    /\ UNCHANGED <<user_request, auto_send, plan, context, inputs, draft>>
    /\ UNCHANGED <<enabled, threshold, textVars, threadVars, singletonVars>>

PipelineNext == Plan \/ Retrieve \/ Prepare \/ Draft \/ SendAndReturn

PipelineSpec == PipelineInit /\ [][PipelineNext]_vars

(***************************************************************************)
(* Vocabulary of the properties.                                           *)
(***************************************************************************)
Called == result # <<>>

\* A run of the caller: the configuration, the text it holds, the text before
\* the last sanitize, the number of sanitize calls and the result of validate.
Run(en, th, text, prev, n, res) ==
    [enabled |-> en, threshold |-> th, content |-> text, previous |-> prev,
     passes |-> n, result |-> res]

\* the run the state holds
Here == Run(enabled, threshold, content, previous, passes, result)

\* The runs Validate and Sanitize make from a text held after n sanitize
\* calls.
RECURSIVE RunsFrom(_, _, _, _, _)
RunsFrom(en, th, text, prev, n) ==
    {Run(en, th, text, prev, n, <<>>),
     Run(en, th, text, prev, n, <<validate(en, th, text)>>)}
        \cup IF n < MaxPasses THEN RunsFrom(en, th, sanitize(text), text, n + 1) ELSE {}

\* The runs on the texts of WideTexts, under the default configuration and
\* with the engine disabled or the threshold above 1.0.
WideRuns ==
    UNION {RunsFrom(en, th, t, t, 0) :
              en \in BOOLEAN, th \in {PII_THRESHOLD, 15}, t \in WideTexts}

\* sub occurs in s
Contains(s, sub) ==
    \E i \in 0..(Len(s) - Len(sub)) : SubSeq(s, i + 1, i + Len(sub)) = sub

AllIn(s, from, to, S) == \A k \in from..to : Chr(s, k) \in S

\* The characters i..j of s are a syntactically valid email address: a local
\* part s[i..a-1] of letters, digits and ._%+-, the @ at a, domain labels
\* s[a+1..d-1] of letters, digits and .-, a dot at d and a final label
\* s[d+1..j] of two or more letters.
EmailAt(s, i, a, d, j) ==
    /\ Chr(s, a) = "@"
    /\ Chr(s, d) = "."
    /\ i < a /\ a + 1 < d /\ d + 2 <= j
    /\ AllIn(s, i, a - 1, Upper \cup Lower \cup Digit \cup {".", "_", "%", "+", "-"})
    /\ AllIn(s, a + 1, d - 1, Upper \cup Lower \cup Digit \cup {".", "-"})
    /\ AllIn(s, d + 1, j, Upper \cup Lower)

ContainsValidEmail(s) ==
    \E a \in 1..Len(s) :
        /\ Chr(s, a) = "@"
        /\ \E d \in (a + 2)..Len(s) :
              /\ Chr(s, d) = "."
              /\ \E i \in 1..(a - 1), j \in (d + 2)..Len(s) : EmailAt(s, i, a, d, j)

\* ... one that stands as a whole word: it begins with a word character that
\* no word character precedes, and no word character follows it.
ContainsWholeWordEmail(s) ==
    \E a \in 1..Len(s) :
        /\ Chr(s, a) = "@"
        /\ \E d \in (a + 2)..Len(s) :
              /\ Chr(s, d) = "."
              /\ \E i \in 1..(a - 1), j \in (d + 2)..Len(s) :
                    /\ EmailAt(s, i, a, d, j)
                    /\ Chr(s, i) \in WordChars
                    /\ i = 1 \/ Chr(s, i - 1) \notin WordChars
                    /\ j = Len(s) \/ Chr(s, j + 1) \notin WordChars

\* s holds an SSN: three digits, a dash, two digits, a dash and four digits
\* in a row, with no word character before or after
ContainsSsnForm(s) ==
    \E i \in 0..(Len(s) - 11) :
        /\ AllIn(s, i + 1, i + 3, Digit) /\ Chr(s, i + 4) = "-"
        /\ AllIn(s, i + 5, i + 6, Digit) /\ Chr(s, i + 7) = "-"
        /\ AllIn(s, i + 8, i + 11, Digit)
        /\ i = 0 \/ Chr(s, i) \notin WordChars
        /\ i + 11 = Len(s) \/ Chr(s, i + 12) \notin WordChars

\* how many times sub occurs in s
Count(s, sub) ==
    Cardinality({i \in 0..(Len(s) - Len(sub)) : SubSeq(s, i + 1, i + Len(sub)) = sub})

HasDigit(s) == \E k \in 1..Len(s) : Chr(s, k) \in Digit

\* sanitize has been applied: content is sanitize(previous)
Sanitized == passes >= 1

\* The texts the email pattern matches in s, and the domain of one: what
\* follows its '@'.
EmailMatches(s) ==
    LET ms == re_finditer(EmailPattern, s, TRUE)
    IN  {MatchText(s, ms[k]) : k \in 1..Len(ms)}

DomainOf(address) ==
    LET at == CHOOSE p \in 1..Len(address) : Chr(address, p) = "@"
    IN  SubSeq(address, at + 1, Len(address))

\* The places <<i, j>> where s holds a card number: four groups of four
\* digits, each pair of groups separated by nothing, '-' or whitespace.
CardSpans(s) ==
    LET form(i, a, b, c) ==
            LET g2 == i + 4 + a
                g3 == g2 + 4 + b
                g4 == g3 + 4 + c
            IN  /\ g4 + 3 <= Len(s)
                /\ AllIn(s, i, i + 3, Digit) /\ AllIn(s, g2, g2 + 3, Digit)
                /\ AllIn(s, g3, g3 + 3, Digit) /\ AllIn(s, g4, g4 + 3, Digit)
                /\ a = 1 => Chr(s, i + 4) \in {"-"} \cup SpaceChars
                /\ b = 1 => Chr(s, g2 + 4) \in {"-"} \cup SpaceChars
                /\ c = 1 => Chr(s, g3 + 4) \in {"-"} \cup SpaceChars
    IN  {<<i, i + 15 + a + b + c>> :
            <<i, a, b, c>> \in {q \in (1..Len(s)) \X (0..1) \X (0..1) \X (0..1) :
                                 form(q[1], q[2], q[3], q[4])}}

\* no character of S stands directly before or after s[i..j]
ClearOf(s, i, j, S) ==
    /\ i = 1 \/ Chr(s, i - 1) \notin S
    /\ j = Len(s) \/ Chr(s, j + 1) \notin S

\* s[i..j] stands between whitespace or the ends of s
SpaceDelimited(s, i, j) ==
    /\ i = 1 \/ Chr(s, i - 1) \in SpaceChars
    /\ j = Len(s) \/ Chr(s, j + 1) \in SpaceChars

\* what follows the last '.' of an address
FinalLabel(address) ==
    LET dot == CHOOSE p \in 1..Len(address) :
                   /\ Chr(address, p) = "."
                   /\ \A q \in (p + 1)..Len(address) : Chr(address, q) # "."
    IN  SubSeq(address, dot + 1, Len(address))

\* The texts pattern pii_type matches in s, left to right.
MatchesOf(pii_type, s) ==
    LET ms == re_finditer(PATTERNS[pii_type], s, TRUE)
    IN  [k \in 1..Len(ms) |-> MatchText(s, ms[k])]

\* Entry k of a result is the Rank-th entry of its category.
Rank(r, k) == Cardinality({j \in 1..k : r.pii_types[j] = r.pii_types[k]})

\* The text entry k of a result on s reports: the Rank-th match of its
\* category.
MatchedValue(r, k, s) == MatchesOf(r.pii_types[k], s)[Rank(r, k)]

\* What entry k of a result shows after "Found <category>: ".
ShownValue(r, k) ==
    SubSeq(r.details[k], Len("Found " \o r.pii_types[k] \o ": ") + 1, Len(r.details[k]))

\* shown is value masked: '***', or two characters of value at each end of
\* '***'
IsMaskOf(shown, value) ==
    \/ shown = "***"
    \/ /\ Len(shown) = 7 /\ Len(value) >= 5
       /\ AllIn(shown, 3, 5, {"*"})
       /\ SubSeq(shown, 1, 2) = SubSeq(value, 1, 2)
       /\ SubSeq(shown, 6, 7) = SubSeq(value, Len(value) - 1, Len(value))

\* the digits of s, in order
RECURSIVE DigitsOf(_)
DigitsOf(s) ==
    IF s = "" THEN ""
    ELSE (IF Chr(s, 1) \in Digit THEN Chr(s, 1) ELSE "") \o DigitsOf(SubSeq(s, 2, Len(s)))

\* The registry order the specification names, and a category's place in it.
RegistryOrder == <<"email", "phone", "ssn", "credit_card", "ip_address", "address">>

RegistryIndex(pii_type) == CHOOSE n \in 1..Len(RegistryOrder) : RegistryOrder[n] = pii_type

\* Entry k of a result on s reports the Rank-th match of its category: masked,
\* or for a phone as its ten digits.
ReportsMatch(r, k, s) ==
    /\ Rank(r, k) <= Len(MatchesOf(r.pii_types[k], s))
    /\ IF r.pii_types[k] = "phone"
       THEN LET digits == DigitsOf(MatchedValue(r, k, s))
            IN  DigitsOf(ShownValue(r, k)) = SubSeq(digits, Len(digits) - 9, Len(digits))
       ELSE IsMaskOf(ShownValue(r, k), MatchedValue(r, k, s))

\* The token the specification names for a category other than email.
TokenOf(pii_type) ==
    CASE pii_type = "phone" -> "[PHONE_REDACTED]"
      [] pii_type = "ssn" -> "[SSN_REDACTED]"
      [] pii_type = "credit_card" -> "[CARD_REDACTED]"
      [] pii_type = "ip_address" -> "[IP_ADDRESS_REDACTED]"
      [] pii_type = "address" -> "[ADDRESS_REDACTED]"

\* The spans of s the pattern of pii_type matches: s[from + 1 .. to], with
\* the category's token.
SpansOf(pii_type, s) ==
    LET ms == re_finditer(PATTERNS[pii_type], s, TRUE)
    IN  {[from |-> ms[k].start, to |-> ms[k].end, token |-> TokenOf(pii_type)] :
            k \in 1..Len(ms)}

\* ... the patterns other than email match
RedactedSpans(s) == UNION {SpansOf(RegistryOrder[n], s) : n \in 2..Len(RegistryOrder)}

\* s from position p on, every span replaced by its token and the rest kept
RECURSIVE Redacted(_, _, _)
Redacted(s, spans, p) ==
    IF p >= Len(s) THEN ""
    ELSE IF \E sp \in spans : sp.from = p
    THEN LET sp == CHOOSE q \in spans : q.from = p
         IN  sp.token \o Redacted(s, spans, sp.to)
    ELSE Chr(s, p + 1) \o Redacted(s, spans, p + 1)

\* C1, of a run.
DisabledBypass(run) ==
    (~run.enabled /\ run.result # <<>>) =>
        run.result[1] = [has_pii |-> FALSE, pii_types |-> <<>>, confidence |-> 10,
                     details |-> <<>>, safe_to_send |-> TRUE]

\* ... of every run on the texts of WideTexts
DisabledBypass_Wide == \A run \in WideRuns : DisabledBypass(run)

(***************************************************************************)
(* C1.  A disabled engine's validate returns has_pii = false, confidence = *)
(* 1.0, safe_to_send = true, pii_types = [] and details = [] whatever the  *)
(* text contains.                                                          *)
(***************************************************************************)
C1_DisabledBypass == DisabledBypass(Here) /\ DisabledBypass_Wide

\* a disabled engine has validated a text that holds an SSN
C1_Witness == ~enabled /\ Called /\ passes = 0 /\ content = "SSN 123-45-6789"

\* C2, of a run.
HasPiiIffDetails(run) ==
    run.result # <<>> => (run.result[1].has_pii <=> Len(run.result[1].details) > 0)

\* ... of every run on the texts of WideTexts
HasPiiIffDetails_Wide == \A run \in WideRuns : HasPiiIffDetails(run)

(***************************************************************************)
(* C2.  Every result of validate, under every configuration, has           *)
(* has_pii == (len(details) > 0).                                          *)
(***************************************************************************)
C2_HasPiiIffDetails == HasPiiIffDetails(Here) /\ HasPiiIffDetails_Wide

\* a result with exactly one detail has been returned
C2_Witness == enabled /\ Called /\ Len(result[1].details) = 1 /\ result[1].has_pii

\* C3, of a run.
DetailsMatchTypes(run) ==
    run.result # <<>> => Len(run.result[1].details) = Len(run.result[1].pii_types)

\* ... of every run on the texts of WideTexts
DetailsMatchTypes_Wide == \A run \in WideRuns : DetailsMatchTypes(run)

(***************************************************************************)
(* C3.  Every result of validate has len(details) == len(pii_types).       *)
(***************************************************************************)
C3_DetailsMatchTypes == DetailsMatchTypes(Here) /\ DetailsMatchTypes_Wide

\* a result with two matches of one category
C3_Witness ==
    /\ Called /\ Len(result[1].pii_types) = 2
    /\ result[1].pii_types[1] = result[1].pii_types[2]
    /\ Len(result[1].details) = 2

\* C4, of a run.
SafeToSendFormula(run) ==
    (run.enabled /\ run.result # <<>>) =>
        (run.result[1].safe_to_send <=>
            (~run.result[1].has_pii \/ run.result[1].confidence < run.threshold))

\* ... of every run on the texts of WideTexts
SafeToSendFormula_Wide == \A run \in WideRuns : SafeToSendFormula(run)

(***************************************************************************)
(* C4.  An enabled engine computes safe_to_send as                         *)
(* (not has_pii) or (confidence < threshold), for every threshold.         *)
(***************************************************************************)
C4_SafeToSendFormula == SafeToSendFormula(Here) /\ SafeToSendFormula_Wide

\* PII was detected and the text is judged safe by the threshold alone
C4_Witness ==
    /\ enabled /\ Called /\ result[1].has_pii
    /\ result[1].confidence < threshold /\ result[1].safe_to_send

(***************************************************************************)
(* C5.  As claimed: with a threshold of 1.0 or above, exactly 1.0          *)
(* included, an enabled engine returns safe_to_send = true for every       *)
(* input.  The comparison is strict, so this fails at exactly 1.0.         *)
(***************************************************************************)
C5_SafeAtOneOrAbove ==
    (enabled /\ threshold >= 10 /\ Called) => result[1].safe_to_send

\* C5, amended, of a run.
SafeAboveOne(run) ==
    (run.enabled /\ run.threshold > 10 /\ run.result # <<>>) => run.result[1].safe_to_send

\* ... of every run on the texts of WideTexts
SafeAboveOne_Wide == \A run \in WideRuns : SafeAboveOne(run)

(***************************************************************************)
(* C5, amended.  With a threshold strictly above 1.0 an enabled engine     *)
(* returns safe_to_send = true for every input, even when PII is detected. *)
(***************************************************************************)
C5_SafeAboveOne == SafeAboveOne(Here) /\ SafeAboveOne_Wide

\* a text with an SSN was validated under a threshold of 1.5
C5_Witness ==
    /\ enabled /\ threshold > 10 /\ Called /\ content = "SSN 123-45-6789"
    /\ result[1].pii_types = <<"ssn">>

\* C6, of a run.
BelowOneUnsafeIffPii(run) ==
    (run.enabled /\ run.threshold < 10 /\ run.result # <<>>) =>
        /\ run.result[1].safe_to_send <=> ~run.result[1].has_pii
        /\ run.result[1].has_pii <=> run.result[1].pii_types # <<>>

\* ... of every run on the texts of WideTexts
BelowOneUnsafeIffPii_Wide == \A run \in WideRuns : BelowOneUnsafeIffPii(run)

(***************************************************************************)
(* C6.  With a threshold below 1.0 an enabled engine returns               *)
(* safe_to_send == not has_pii: a text some detector matches is unsafe, a  *)
(* text none matches is safe.                                              *)
(***************************************************************************)
C6_BelowOneUnsafeIffPii == BelowOneUnsafeIffPii(Here) /\ BelowOneUnsafeIffPii_Wide

\* under the default threshold a detected email made the text unsafe
C6_Witness ==
    /\ enabled /\ threshold = PII_THRESHOLD /\ Called
    /\ "email" \in {result[1].pii_types[i] : i \in 1..Len(result[1].pii_types)}
    /\ ~result[1].safe_to_send

(***************************************************************************)
(* C7.  Under the default configuration                                    *)
(* validate("Contact me at test@example.com") returns has_pii = true,      *)
(* pii_types = ["email"] and safe_to_send = false.                         *)
(***************************************************************************)
C7_Scenario ==
    (/\ enabled = ENABLE_PII_VALIDATION /\ threshold = PII_THRESHOLD
     /\ passes = 0 /\ content = "Contact me at test@example.com" /\ Called) =>
        /\ result[1].has_pii
        /\ result[1].pii_types = <<"email">>
        /\ ~result[1].safe_to_send

\* the scenario's call has returned
C7_Witness ==
    /\ enabled = ENABLE_PII_VALIDATION /\ threshold = PII_THRESHOLD
    /\ passes = 0 /\ content = "Contact me at test@example.com" /\ Called

(***************************************************************************)
(* C8.  As claimed: for an enabled engine, every text that contains a      *)
(* syntactically valid email address as a substring, whatever characters   *)
(* precede or follow it, is reported with has_pii = true and "email" in    *)
(* pii_types.  The pattern ends in \b, so an address directly followed by  *)
(* a digit, an underscore or a letter outside A-Z is not matched.          *)
(***************************************************************************)
C8_EveryEmailDetected ==
    (enabled /\ Called /\ ContainsValidEmail(content)) =>
        /\ result[1].has_pii
        /\ \E i \in 1..Len(result[1].pii_types) : result[1].pii_types[i] = "email"

\* C8, amended, of a run.
WholeWordEmailDetected(run) ==
    (run.enabled /\ run.result # <<>> /\ ContainsWholeWordEmail(run.content)) =>
        /\ run.result[1].has_pii
        /\ \E i \in 1..Len(run.result[1].pii_types) : run.result[1].pii_types[i] = "email"

\* ... of every run on the texts of WideTexts
WholeWordEmailDetected_Wide == \A run \in WideRuns : WholeWordEmailDetected(run)

(***************************************************************************)
(* C8, amended.  For an enabled engine, every text that contains a         *)
(* syntactically valid email address standing as a whole word (it begins   *)
(* with a letter, digit or underscore that no word character precedes, and *)
(* no word character follows it; a word character is one \w matches, a     *)
(* letter or numeric character of any script or an underscore) is reported *)
(* with has_pii = true and "email" in pii_types.                           *)
(***************************************************************************)
C8_WholeWordEmailDetected == WholeWordEmailDetected(Here) /\ WholeWordEmailDetected_Wide

\* an address between a non-word character and another one was validated
C8_Witness ==
    /\ enabled /\ Called /\ passes = 0 /\ content = "+a@b.co+"
    /\ result[1].pii_types = <<"email">>

(***************************************************************************)
(* C9.  sanitize is idempotent: sanitize(sanitize(t)) == sanitize(t).      *)
(* After a second pass in a row the text is the text before it.            *)
(***************************************************************************)
C9_SanitizeIdempotent == passes >= 2 => content = previous

(***************************************************************************)
(* C10.  The output of sanitize holds no match of any detector pattern, so *)
(* an enabled validate on it returns has_pii = false; and the output for   *)
(* an input that holds an SSN of the form DDD-DD-DDDD holds [SSN_REDACTED] *)
(* and nothing the SSN pattern matches.                                    *)
(***************************************************************************)
C10_SanitizedIsClean ==
    /\ (enabled /\ passes >= 1 /\ Called) => ~result[1].has_pii
    /\ (passes = 1 /\ ContainsSsnForm(previous)) =>
          /\ Contains(content, "[SSN_REDACTED]")
          /\ re_findall(SsnPattern, content, TRUE) = <<>>

(***************************************************************************)
(* C11.  As claimed: for every email address matched in the input, the     *)
(* output of sanitize contains [EMAIL_REDACTED]@ followed by the address's *)
(* domain, unchanged, and no longer contains the original                  *)
(* local-part@domain string, for every domain the pattern accepts, domains *)
(* with digit labels included.  A later pass rewrites a domain it matches. *)
(***************************************************************************)
C11_DomainAlwaysKept ==
    Sanitized =>
        \A g \in EmailMatches(previous) :
            /\ Contains(content, "[EMAIL_REDACTED]@" \o DomainOf(g))
            /\ ~Contains(content, g)

\* C11, amended, of a run.
DigitFreeDomainKept(run) ==
    run.passes >= 1 =>
        \A g \in EmailMatches(run.previous) :
            /\ ~HasDigit(DomainOf(g)) =>
                  Contains(run.content, "[EMAIL_REDACTED]@" \o DomainOf(g))
            /\ Count(run.content, g) < Count(run.previous, g)

\* ... of every run on the texts of WideTexts
DigitFreeDomainKept_Wide == \A run \in WideRuns : DigitFreeDomainKept(run)

(***************************************************************************)
(* C11, amended.  For every email address matched in the input whose       *)
(* domain holds no digit, the output of sanitize contains                  *)
(* [EMAIL_REDACTED]@ followed by that domain, unchanged; and for every     *)
(* matched address the output holds the original local-part@domain string  *)
(* fewer times than the input does.                                        *)
(***************************************************************************)
C11_DigitFreeDomainKept == DigitFreeDomainKept(Here) /\ DigitFreeDomainKept_Wide

\* the specification's example has been sanitized
C11_Witness ==
    /\ passes = 1 /\ previous = "contact me at a@b.com"
    /\ "a@b.com" \in EmailMatches(previous)
    /\ Contains(content, "[EMAIL_REDACTED]@b.com") /\ ~Contains(content, "a@b.com")

(***************************************************************************)
(* C12.  As claimed: for every text that holds a card number delimited by  *)
(* word boundaries, the output of sanitize contains [CARD_REDACTED] and    *)
(* not the original 16-digit sequence; the phone and ssn passes never      *)
(* consume part of the card number first.  They do when digit groups       *)
(* stand before it.                                                        *)
(***************************************************************************)
C12_CardAlwaysRedacted ==
    Sanitized =>
        \A sp \in CardSpans(previous) :
            ClearOf(previous, sp[1], sp[2], WordChars) =>
                /\ Contains(content, "[CARD_REDACTED]")
                /\ ~Contains(content, SubSeq(previous, sp[1], sp[2]))

\* C12, amended, of a run.
SpacedCardRedacted(run) ==
    run.passes >= 1 =>
        \A sp \in CardSpans(run.previous) :
            SpaceDelimited(run.previous, sp[1], sp[2]) =>
                /\ Contains(run.content, "[CARD_REDACTED]")
                /\ Count(run.content, SubSeq(run.previous, sp[1], sp[2]))
                      < Count(run.previous, SubSeq(run.previous, sp[1], sp[2]))

\* ... of every run on the texts of WideTexts
SpacedCardRedacted_Wide == \A run \in WideRuns : SpacedCardRedacted(run)

(***************************************************************************)
(* C12, amended.  For every text that holds a card number standing between *)
(* whitespace or the ends of the text, the output of sanitize contains     *)
(* [CARD_REDACTED] and holds the original 16-digit sequence fewer times    *)
(* than the input does.                                                    *)
(***************************************************************************)
C12_SpacedCardRedacted == SpacedCardRedacted(Here) /\ SpacedCardRedacted_Wide

\* the card of the repository's test has been redacted
C12_Witness ==
    /\ passes = 1 /\ previous = "Use card 4242 4242 4242 4242 now"
    /\ <<10, 28>> \in CardSpans(previous)
    /\ content = "Use card [CARD_REDACTED] now"

(***************************************************************************)
(* C13.  sanitize("Call me at (415) 555-1212") contains [PHONE_REDACTED]:  *)
(* a phone number with a parenthesized area code, a space and a 3-4 digit  *)
(* pair is redacted by the phone pass.  The pattern has no space among its *)
(* separators, and the text comes back unchanged.                          *)
(***************************************************************************)
C13_ParenthesizedPhoneRedacted ==
    (passes = 1 /\ previous = "Call me at (415) 555-1212") =>
        Contains(content, "[PHONE_REDACTED]")

(***************************************************************************)
(* C14.  The phone detector accepts every number of groups of 3, 3 and 4   *)
(* digits whose separators are absent, '-', '.' or a space, with an        *)
(* optional parenthesized area code and an optional leading +1 or 1, in    *)
(* validate (a phone entry is reported) and in sanitize (the token is      *)
(* written).  A space is not accepted.                                     *)
(***************************************************************************)
C14_PhoneSeparatorsAccepted ==
    /\ (enabled /\ Called /\ passes = 0 /\ content \in PhoneTexts) =>
          \E k \in 1..Len(result[1].pii_types) : result[1].pii_types[k] = "phone"
    /\ (passes = 1 /\ previous \in PhoneTexts) =>
          Contains(content, "[PHONE_REDACTED]")

(***************************************************************************)
(* C15.  Every substring the email detector matches has a final domain     *)
(* label, the part after the last '.', of at least 2 characters that are   *)
(* all letters; no match ends in a label that holds '|'.  The pattern's    *)
(* class [A-Z|a-z] lets '|' into the label.                                *)
(***************************************************************************)
C15_FinalLabelAlphabetic ==
    (enabled /\ Called) =>
        /\ \A g \in EmailMatches(content) :
              /\ Len(FinalLabel(g)) >= 2
              /\ AllIn(FinalLabel(g), 1, Len(FinalLabel(g)), Upper \cup Lower)
        /\ \A k \in 1..Len(result[1].details) :
              result[1].pii_types[k] = "email" =>
                  AllIn(result[1].details[k], Len(result[1].details[k]) - 1,
                        Len(result[1].details[k]), Upper \cup Lower)

(***************************************************************************)
(* C16.  The masking helper returns '***' alone for every value of length  *)
(* <= 4, and for every value of length >= 5 exactly its first 2            *)
(* characters, '***' and its last 2 characters.  (Under MaskSpec.)         *)
(***************************************************************************)
C16_MaskRule ==
    Called =>
        IF Len(content) <= 4 THEN result[1] = "***"
        ELSE /\ Len(result[1]) = 7
             /\ Chr(result[1], 1) = Chr(content, 1)
             /\ Chr(result[1], 2) = Chr(content, 2)
             /\ AllIn(result[1], 3, 5, {"*"})
             /\ Chr(result[1], 6) = Chr(content, Len(content) - 1)
             /\ Chr(result[1], 7) = Chr(content, Len(content))

\* a value of four characters has been masked whole
C16_Witness == Called /\ content = "a1.a" /\ result[1] = "***"

(***************************************************************************)
(* C17.  As claimed: in every validate result each entry of details shows  *)
(* its matched value masked; no entry exposes the complete matched value,  *)
(* for any category, phone included.  A phone entry shows the whole        *)
(* number.                                                                 *)
(***************************************************************************)
C17_EveryDetailMasked ==
    (enabled /\ Called) =>
        \A k \in 1..Len(result[1].details) :
            /\ IsMaskOf(ShownValue(result[1], k), MatchedValue(result[1], k, content))
            /\ ~Contains(result[1].details[k], MatchedValue(result[1], k, content))

\* C17, amended, of a run.
NonPhoneDetailMasked(run) ==
    (run.enabled /\ run.result # <<>>) =>
        \A k \in 1..Len(run.result[1].details) :
            IF run.result[1].pii_types[k] = "phone"
            THEN LET shown == ShownValue(run.result[1], k)
                     digits == DigitsOf(MatchedValue(run.result[1], k, run.content))
                 IN  /\ Len(shown) = 12
                     /\ Chr(shown, 4) = "-" /\ Chr(shown, 8) = "-"
                     /\ DigitsOf(shown) = SubSeq(digits, Len(digits) - 9, Len(digits))
            ELSE /\ IsMaskOf(ShownValue(run.result[1], k),
                             MatchedValue(run.result[1], k, run.content))
                 /\ ~Contains(run.result[1].details[k],
                              MatchedValue(run.result[1], k, run.content))

\* ... of every run on the texts of WideTexts
NonPhoneDetailMasked_Wide == \A run \in WideRuns : NonPhoneDetailMasked(run)

(***************************************************************************)
(* C17, amended.  In every validate result each entry of details of a      *)
(* category other than phone shows its matched value masked, the first 2   *)
(* and last 2 characters of the match around '***', never the complete     *)
(* value; a phone entry shows the number's three digit groups joined by    *)
(* '-', unmasked.                                                          *)
(***************************************************************************)
C17_NonPhoneDetailMasked == NonPhoneDetailMasked(Here) /\ NonPhoneDetailMasked_Wide

\* a result with a masked email entry and an unmasked phone entry
C17_Witness ==
    /\ enabled /\ Called /\ passes = 0
    /\ content = "a@b.co 415-555-1212 b@c.de 1-415-555-1212"
    /\ result[1].details = <<"Found email: a@***co", "Found email: b@***de",
                             "Found phone: 415-555-1212", "Found phone: 415-555-1212">>

\* C18, of a run.
RegistryThenTextOrder(run) ==
    (run.enabled /\ run.result # <<>>) =>
        /\ \A i \in 1..Len(run.result[1].pii_types), j \in 1..Len(run.result[1].pii_types) :
              i < j => RegistryIndex(run.result[1].pii_types[i])
                         <= RegistryIndex(run.result[1].pii_types[j])
        /\ \A n \in 1..Len(RegistryOrder) :
              Cardinality({k \in 1..Len(run.result[1].pii_types) :
                              run.result[1].pii_types[k] = RegistryOrder[n]})
                  = Len(MatchesOf(RegistryOrder[n], run.content))
        /\ \A k \in 1..Len(run.result[1].details) : ReportsMatch(run.result[1], k, run.content)

\* ... of every run on the texts of WideTexts
RegistryThenTextOrder_Wide == \A run \in WideRuns : RegistryThenTextOrder(run)

(***************************************************************************)
(* C18.  In every validate result pii_types, and details index for index,  *)
(* is ordered by registry order email, phone, ssn, credit_card,            *)
(* ip_address, address, and within one category by the left-to-right       *)
(* position of the match in the text; an entry of a later category never   *)
(* precedes an entry of an earlier one.                                    *)
(***************************************************************************)
C18_RegistryThenTextOrder == RegistryThenTextOrder(Here) /\ RegistryThenTextOrder_Wide

\* the SSN stands before the email in the text and after it in the result
C18_Witness ==
    /\ enabled /\ Called /\ passes = 0
    /\ content = "SSN 123-45-6789 mail a@b.co"
    /\ result[1].pii_types = <<"email", "ssn">>
    /\ result[1].details = <<"Found email: a@***co", "Found ssn: 12***89">>

\* C19, of a run.
PassesInSequence(run) ==
    run.passes >= 1 =>
        /\ \A n \in 2..Len(RegistryOrder) : MatchesOf(RegistryOrder[n], run.content) = <<>>
        /\ run.previous = "a@10.0.0.1.co" =>
              run.content = "[EMAIL_REDACTED]@[IP_ADDRESS_REDACTED].co"
        /\ run.previous = "a@123-45-6789.org" =>
              run.content = "[EMAIL_REDACTED]@[SSN_REDACTED].org"
        /\ run.previous = "555-555-4242-4242-4242-4242" =>
              run.content = "[PHONE_REDACTED]-4242-4242-4242"

\* ... of every run on the texts of WideTexts
PassesInSequence_Wide == \A run \in WideRuns : PassesInSequence(run)

(***************************************************************************)
(* C19.  sanitize applies the six passes one after another in registry     *)
(* order, each on the output of the one before: what an earlier pass       *)
(* leaves in place or writes, such as the domain kept by the email pass,   *)
(* is redacted by a later pass whenever it matches that pass's pattern.    *)
(* So no pattern of a pass after email matches the output; a kept domain   *)
(* of digit groups is redacted by the ip_address pass; and the phone pass  *)
(* takes the digits it matches before the credit_card pass sees them.      *)
(***************************************************************************)
C19_PassesInSequence == PassesInSequence(Here) /\ PassesInSequence_Wide

\* the domain the email pass kept has been redacted by the ip_address pass
C19_Witness ==
    /\ passes = 1 /\ previous = "a@10.0.0.1.co"
    /\ MatchesOf("ip_address", DomainOf(previous)) # <<>>
    /\ content = "[EMAIL_REDACTED]@[IP_ADDRESS_REDACTED].co"

\* Pass n of sanitize made out of text: the email pass, or out is text with
\* every span the pass's pattern matches in text replaced by the category's
\* token and every other character kept.
PassReplaces(n, text, out) ==
    n = 1 \/ out = Redacted(text, SpansOf(PatternNames[n], text), 0)

\* The passes from n on, run on text, each replace so and end in final.
RECURSIVE EachPassReplaces(_, _, _)
RECURSIVE ThenEachPassReplaces(_, _, _, _)
EachPassReplaces(n, text, final) ==
    IF n > Len(PatternNames) THEN text = final
    ELSE ThenEachPassReplaces(n, text, SanitizePass(PatternNames[n], text), final)

ThenEachPassReplaces(n, text, out, final) ==
    PassReplaces(n, text, out) /\ EachPassReplaces(n + 1, out, final)

\* C20, of a run.
SpanReplacedByToken(run) ==
    run.passes >= 1 => EachPassReplaces(1, run.previous, run.content)

\* ... of every run on the texts of WideTexts
SpanReplacedByToken_Wide == \A run \in WideRuns : SpanReplacedByToken(run)

(***************************************************************************)
(* C20.  For each category other than email, sanitize replaces the whole   *)
(* matched span by the category's one token, [PHONE_REDACTED],             *)
(* [SSN_REDACTED], [CARD_REDACTED], [IP_ADDRESS_REDACTED] or               *)
(* [ADDRESS_REDACTED]; no character of the span survives and the text      *)
(* outside the matches is unchanged.  For every text: each pass after the  *)
(* email pass returns the text it is given with every span its pattern     *)
(* matches there replaced by the token and every other character kept, and *)
(* sanitize returns what the last pass returns.                            *)
(***************************************************************************)
C20_SpanReplacedByToken == SpanReplacedByToken(Here) /\ SpanReplacedByToken_Wide

\* a phone number, a card number and an IP address have been replaced, the
\* words between them kept
C20_Witness ==
    /\ passes = 1
    /\ previous = "call 415.555.1212 card 4242-4242-4242-4242 ip 1.1.1.1"
    /\ Cardinality(RedactedSpans(previous)) = 3
    /\ SpansOf("phone", previous) = {[from |-> 5, to |-> 17, token |-> "[PHONE_REDACTED]"]}
    /\ content = "call [PHONE_REDACTED] card [CARD_REDACTED] ip [IP_ADDRESS_REDACTED]"

\* C25, of a run.
ConfidenceBinary(run) ==
    run.result # <<>> =>
        /\ 0 <= run.result[1].confidence /\ run.result[1].confidence <= 10
        /\ run.enabled =>
              /\ (\E n \in 1..Len(RegistryOrder) :
                      MatchesOf(RegistryOrder[n], run.content) # <<>>)
                    => run.result[1].confidence = 10
              /\ (\A n \in 1..Len(RegistryOrder) :
                      MatchesOf(RegistryOrder[n], run.content) = <<>>)
                    => run.result[1].confidence = 0
              /\ (run.result[1].confidence = 10) <=> run.result[1].has_pii

\* ... of every run on the texts of WideTexts
ConfidenceBinary_Wide == \A run \in WideRuns : ConfidenceBinary(run)

(***************************************************************************)
(* C25.  For the enabled engine the confidence of a validate result is     *)
(* exactly 1.0 when at least one pattern matches the text and exactly 0.0  *)
(* when none does, so confidence is 1.0 exactly when has_pii is true; in   *)
(* every configuration the confidence lies within [0, 1].                  *)
(***************************************************************************)
C25_ConfidenceBinary == ConfidenceBinary(Here) /\ ConfidenceBinary_Wide

\* two patterns each match once and the confidence is 1.0, not a sum
C25_Witness ==
    /\ enabled /\ Called /\ passes = 0
    /\ content = "SSN 123-45-6789 mail a@b.co"
    /\ Len(result[1].details) = 2
    /\ result[1].confidence = 10

\* C26, of a run.
PhoneEntryForm(run) ==
    (run.enabled /\ run.result # <<>>) =>
        \A k \in 1..Len(run.result[1].details) :
            run.result[1].pii_types[k] = "phone" =>
                LET digits == DigitsOf(MatchedValue(run.result[1], k, run.content))
                    ten == SubSeq(digits, Len(digits) - 9, Len(digits))
                IN  /\ run.result[1].details[k]
                          = "Found phone: " \o SubSeq(ten, 1, 3) \o "-"
                              \o SubSeq(ten, 4, 6) \o "-" \o SubSeq(ten, 7, 10)
                    /\ ~Contains(run.result[1].details[k], "*")

\* ... of every run on the texts of WideTexts
PhoneEntryForm_Wide == \A run \in WideRuns : PhoneEntryForm(run)

(***************************************************************************)
(* C26.  Every phone entry of a validate result is 'Found phone: ' and     *)
(* the three captured digit groups, area code, prefix and line number,     *)
(* joined by '-': the same for every separator, with or without            *)
(* parentheses and a +1 prefix in the text.  The masking helper is not     *)
(* applied to it.                                                          *)
(***************************************************************************)
C26_PhoneEntryForm == PhoneEntryForm(Here) /\ PhoneEntryForm_Wide

\* a number written with +1, parentheses and a dot is shown with dashes
C26_Witness ==
    /\ enabled /\ Called /\ passes = 0
    /\ content = "+1-(415)555.1212"
    /\ result[1].pii_types = <<"phone">>
    /\ result[1].details = <<"Found phone: 415-555-1212">>

\* C28, of a run.
CleanIffUnchanged(run) ==
    (run.enabled /\ run.passes >= 1) =>
        ((~validate(run.enabled, run.threshold, run.previous).has_pii) <=> (run.content = run.previous))

\* ... of every run on the texts of WideTexts
CleanIffUnchanged_Wide == \A run \in WideRuns : CleanIffUnchanged(run)

(***************************************************************************)
(* C28.  For the enabled engine and every text t, validate(t).has_pii is   *)
(* false exactly when sanitize(t) returns t unchanged: sanitize changes a  *)
(* text if and only if validate reports PII in it.                         *)
(***************************************************************************)
C28_CleanIffUnchanged == CleanIffUnchanged(Here) /\ CleanIffUnchanged_Wide

\* a text with PII that sanitize changed, and one without that it returned
C28_Witness ==
    /\ enabled /\ passes = 1
    /\ previous = "Call 415-555-1212 or +1 (415)555.1212"
    /\ content = "Call [PHONE_REDACTED] or +1 ([PHONE_REDACTED]"
    /\ validate(enabled, threshold, previous).has_pii

(***************************************************************************)
(* C21.  The engine is stateless after construction: no step of a validate *)
(* or sanitize call changes enabled or threshold, and nothing of past      *)
(* calls is recorded: whichever calls came before, validate(t) returns the *)
(* same value for the same t, and so does sanitize(t).                     *)
(***************************************************************************)
C21_Stateless ==
    /\ [][enabled' = enabled /\ threshold' = threshold]_vars
    /\ [](\A x \in returned, y \in returned :
              (x.op = y.op /\ x.arg = y.arg) => x.ret = y.ret)

\* one thread has made the same validate call twice, with one value
C21_Witness ==
    /\ enabled
    /\ threads[1].calls = 2 /\ threads[2].calls = 0
    /\ Cardinality(returned) = 1
    /\ \E x \in returned :
          /\ x.op = "validate" /\ x.arg = "SSN 123-45-6789 at 10.0.0.1"
          /\ x.ret.pii_types = <<"ssn", "ip_address">>

(***************************************************************************)
(* C22.  Calls of validate and sanitize made from several threads on one   *)
(* engine without locking, their statements interleaved in any order, each *)
(* return exactly what the call returns when it runs alone; no             *)
(* interleaving changes a result or the configuration.                     *)
(***************************************************************************)
C22_InterleavedAsAlone ==
    [][/\ \A x \in returned' \ returned :
              IF x.op = "validate"
              THEN x.ret = validate(enabled, threshold, x.arg)
              ELSE x.ret = sanitize(x.arg)
       /\ UNCHANGED <<enabled, threshold>>]_vars

\* a sanitize call has returned in one thread while another thread is inside
\* the loop of its own, the email and phone passes done
C22_Witness ==
    /\ enabled
    /\ threads[1].pc = "loop" /\ threads[1].i = 3
    /\ threads[1].arg = "SSN 123-45-6789 at 10.0.0.1"
    /\ threads[2].pc = "idle" /\ threads[2].calls = 1
    /\ [op |-> "sanitize", arg |-> "a@b.co 415-555-1212",
        ret |-> "[EMAIL_REDACTED]@b.co [PHONE_REDACTED]"] \in returned

(***************************************************************************)
(* C30.  get_pii_validator returns one and the same instance on every      *)
(* call, and PIIValidator is constructed at most once, also when the first *)
(* calls are made concurrently from several threads.  Two threads that     *)
(* both find the global None each construct an instance.                   *)
(***************************************************************************)
C30_OneInstance ==
    /\ instances <= 1
    /\ \A t \in DOMAIN getters, u \in DOMAIN getters :
          \A i \in 1..Len(getters[t].got), j \in 1..Len(getters[u].got) :
              getters[t].got[i] = getters[u].got[j]

(***************************************************************************)
(* Vocabulary of the pipeline's properties.                                *)
(***************************************************************************)
\* the positions in trace of the calls of op
CallsOf(op) == {i \in 1..Len(trace) : trace[i].op = op}

\* before position i, sanitize was called on raw and returned clean
SanitizedBefore(i, raw, clean) ==
    \E j \in 1..(i - 1) :
        /\ trace[j].op = "sanitize"
        /\ trace[j].arg = raw
        /\ trace[j].ret = clean

(***************************************************************************)
(* C23.  PlannerAgent.plan, when the validator is enabled, calls sanitize  *)
(* on the user request exactly once before the LLM chain is invoked, so    *)
(* the planning LLM never receives the raw request text.  The code's plan  *)
(* makes no call on the validator and hands the chain the request as it    *)
(* came.                                                                   *)
(***************************************************************************)
C23_PlannerSanitizesRequest ==
    (enabled /\ stage = "planned") =>
        \E i \in CallsOf("planner.chain.invoke") :
            /\ Cardinality({j \in CallsOf("sanitize") : j < i}) = 1
            /\ SanitizedBefore(i, user_request, trace[i].arg.request)
            /\ trace[i].arg.request = sanitize(user_request)

(***************************************************************************)
(* C24.  In DrafterAgent.draft with the validator enabled, every text      *)
(* field handed to the LLM chain, request, key points, context section and *)
(* recipients, has been passed through sanitize before chain.invoke;       *)
(* validate is run on the generated body after the LLM returns and before  *)
(* the draft is returned; a body judged not safe_to_send is replaced by    *)
(* sanitize(body) before return.  The code hands the recipients to the     *)
(* chain as the plan has them.                                             *)
(***************************************************************************)
C24_DrafterSanitizesFields ==
    (enabled /\ draft # <<>>) =>
        \E i \in CallsOf("drafter.chain.invoke") :
            /\ SanitizedBefore(i, user_request, trace[i].arg.request)
            /\ \E raw \in {Join("\n- ", plan[1].key_points)} :
                  SanitizedBefore(i, raw, trace[i].arg.key_points)
            /\ \E j \in 1..(i - 1) :
                  /\ trace[j].op = "sanitize"
                  /\ trace[j].ret = trace[i].arg.context_section
            /\ trace[i].arg.recipients = sanitize(Join(", ", plan[1].recipients))
            /\ trace[i].ret # <<>> =>
                  /\ i < Len(trace)
                  /\ trace[i + 1].op = "validate"
                  /\ trace[i + 1].arg = trace[i].ret[1].body
                  /\ draft[1].is_safe = trace[i + 1].ret.safe_to_send
                  /\ draft[1].body = IF trace[i + 1].ret.safe_to_send
                                     THEN trace[i].ret[1].body
                                     ELSE sanitize(trace[i].ret[1].body)

(***************************************************************************)
(* C27.  process_request calls gmail.send_email only when auto_send is set *)
(* and draft.is_safe is true; a draft for which validate reported          *)
(* safe_to_send = false is never sent, even though its body was sanitized. *)
(***************************************************************************)
C27_UnsafeNeverSent ==
    /\ CallsOf("gmail.send_email") # {} =>
          /\ auto_send
          /\ draft # <<>> /\ draft[1].is_safe
          /\ \A i \in CallsOf("gmail.send_email") : trace[i].arg.body = draft[1].body
    /\ (\E j \in CallsOf("validate") : ~trace[j].ret.safe_to_send) =>
          CallsOf("gmail.send_email") = {}
    /\ response # <<>> =>
          (CallsOf("gmail.send_email") # {} => response[1].sent)

\* auto_send is set and the plan has a recipient, validate found the body
\* unsafe, the body was sanitized, and nothing was sent
C27_Witness ==
    /\ stage = "done" /\ auto_send /\ enabled
    /\ plan[1].recipients = <<"bob@y.com">>
    /\ \E j \in CallsOf("validate") :
          /\ trace[j].arg = "Call me at 415-555-1212."
          /\ ~trace[j].ret.safe_to_send
    /\ draft[1].body = "Call me at [PHONE_REDACTED]."
    /\ ~draft[1].is_safe
    /\ CallsOf("gmail.send_email") = {}

(***************************************************************************)
(* C29.  With the validator enabled and a threshold below 1.0, every       *)
(* EmailDraft that draft returns with is_safe = true has a body in which   *)
(* validate detects no PII, the fallback draft built after an LLM or parse *)
(* exception included.  The fallback embeds the sanitized request, and     *)
(* sanitize can leave an address in it.                                    *)
(***************************************************************************)
C29_SafeDraftIsClean ==
    (enabled /\ threshold < 10 /\ draft # <<>> /\ draft[1].is_safe) =>
        ~validate(enabled, threshold, draft[1].body).has_pii

====
